---------------------------- MODULE Spec2Model ----------------------------
(***************************************************************************)
(* A model of ghosting.py: the frame analyzer (analyze_video), the report  *)
(* store (save_frame_report / pandas.read_csv), the segmenter              *)
(* (split_video_pro) and the two filter-graph builders                     *)
(* (create_grayscale_ghost_video, create_temporal_ghost_video).            *)
(*                                                                         *)
(* Three specifications share the variables:                               *)
(*   SpecAnalyze  one run of analyze_video over a streamed container       *)
(*   SpecReport   save_frame_report followed by split_video_pro            *)
(*   SpecCompose  create_grayscale_ghost_video followed by                 *)
(*                create_temporal_ghost_video on the same report           *)
(***************************************************************************)
EXTENDS Integers, Sequences, FiniteSets, TLC

VARIABLES
    pc,           \* position of the running function
    \* ---- analyze_video
    packets,      \* history: per demuxed packet, [size, nframes]
    decoded,      \* history: the raw frames decoded so far, [pict_type, pts]
    cur_size,     \* packet.size of the packet being decoded
    results,      \* the local list `results`
    frame_count,  \* the local counter `frame_count`
    failed,       \* an exception reached the outer handler
    ret,          \* the value analyze_video returned
    \* ---- save_frame_report, split_video_pro
    frame_data,   \* the report handed to save_frame_report
    csv_exists,   \* whether the report file exists
    csv,          \* the lines of the report file
    df,           \* the DataFrame split_video_pro reads back
    split_points, \* the local list `split_points`
    times_string, \* the -segment_times argument
    returncode,   \* exit status of the external split invocation
    console,      \* what the functions printed, in order
    raised,       \* the exception that left the running function ("" if none)
    \* ---- create_grayscale_ghost_video, create_temporal_ghost_video
    rep,            \* the report file: [rows, intra], the number of rows and
                    \* the indices of the rows of type I
    num_segments,   \* the argument `num_segments`
    total_frames,   \* the locals of the running function ...
    last_iframe_idx,
    frames_in_last,
    padding_needed,
    loop_i,         \* the running loop's variable `i`
    input_args,
    filter_parts,
    last_label,
    third_size,
    filter_complex,
    gray            \* what create_grayscale_ghost_video built, kept for comparison

avars == <<packets, decoded, cur_size, results, frame_count, failed, ret>>
rvars == <<frame_data, csv_exists, csv, df, split_points, times_string,
           returncode, console, raised>>
cvars == <<rep, num_segments, total_frames, last_iframe_idx, frames_in_last,
           padding_needed, loop_i, input_args, filter_parts, last_label, third_size,
           filter_complex, gray>>
vars == <<pc, avars, rvars, cvars>>

NULL == -999999999  \* code for: Python None (frame.pts of a frame without a timestamp)
Missing == -1       \* code for: frame.pict_type raises AttributeError

---------------------------------------------------------------------------
(* Bounds of the model *)
MaxPackets == 2    \* packets the demuxer yields in one run
MaxFrames == 3     \* frames decoded in one run
MaxRows == 2       \* rows of an enumerated frame report
MaxSegments == 12  \* largest num_segments handed to a composition strategy

\* pd.DataFrame([]): no column, no row
EmptyFrame == [columns |-> << >>, data |-> << >>]

\* the variables of a stage that is not running
AnalyzeIdle ==
    /\ packets = << >> /\ decoded = << >> /\ cur_size = 0 /\ results = << >>
    /\ frame_count = 0 /\ failed = FALSE /\ ret = << >>

ReportIdle ==
    /\ frame_data = << >> /\ csv_exists = FALSE /\ csv = << >>
    /\ df = EmptyFrame
    /\ split_points = << >> /\ times_string = "" /\ returncode = 0
    /\ console = << >> /\ raised = ""

NaNCell == [k |-> "nan", n |-> 0, s |-> ""]

ComposeIdle ==
    /\ rep = [rows |-> 0, intra |-> {}] /\ num_segments = 0
    /\ total_frames = 0 /\ last_iframe_idx = NaNCell /\ frames_in_last = NaNCell
    /\ padding_needed = NaNCell /\ loop_i = 0 /\ input_args = << >>
    /\ filter_parts = << >> /\ last_label = "" /\ third_size = [num |-> 0, den |-> 1]
    /\ filter_complex = "" /\ gray = [padding |-> NaNCell, parts |-> << >>, filter_complex |-> ""]

---------------------------------------------------------------------------
(* analyze_video *)

\* av.video.frame.PictureType: the enumeration's members by value.
PictureTypeMembers ==
    [v \in 0..7 |-> <<"NONE", "I", "P", "B", "S", "SI", "SP", "BI">>[v + 1]]

\* what frame.pict_type can hold: a member's value, a value outside the
\* enumeration (PictureType(v) raises ValueError), or nothing usable
\* (AttributeError)
PictTypeInputs == (0..4) \cup {7, 8, Missing}
PtsInputs == {NULL, 90000}
SizeInputs == {2048}

\* lines 22-25: try: PictureType(frame.pict_type).name
\*              except (ValueError, AttributeError): "Unknown"
ClassifyFrame(pict_type) ==
    IF pict_type \in DOMAIN PictureTypeMembers
    THEN PictureTypeMembers[pict_type]
    ELSE "Unknown"

\* (mutation of FrameRecord: the index counts packets, not frames)
FrameRecord_PerPacket(fc, ptype, pts, size) ==
    [index |-> Len(packets) - 1, type |-> ptype, pts |-> pts, size |-> size]

\* lines 27-32: the record appended for one frame
FrameRecord(fc, ptype, pts, size) ==
    [index |-> fc, type |-> ptype, pts |-> pts, size |-> size]

\* line 36: frame_count += 1
AdvanceFrameCount(fc) == fc + 1

\* (mutation of OnException: the handler returns what was accumulated)
OnException_Partial(partial) == partial

\* lines 40-42: except Exception: return []
OnException(partial) == << >>

\* line 16: container = av.open(file_path); lines 17-18
Open ==
    /\ pc = "open"
    /\ pc' = "demux"
    /\ UNCHANGED <<avars, rvars, cvars>>

\* line 20: the next packet of container.demux(video=0)
NextPacket ==
    /\ pc = "demux"
    /\ Len(packets) < MaxPackets
    /\ \E s \in SizeInputs :
         /\ cur_size' = s
         /\ packets' = Append(packets, [size |-> s, nframes |-> 0])
    /\ pc' = "decode"
    /\ UNCHANGED <<decoded, results, frame_count, failed, ret, rvars, cvars>>

\* lines 21-36: one iteration of `for frame in packet.decode()`
DecodeFrame ==
    /\ pc = "decode"
    /\ frame_count < MaxFrames
    /\ \E pt \in PictTypeInputs, pts \in PtsInputs :
         /\ decoded' = Append(decoded, [pict_type |-> pt, pts |-> pts])
         /\ results' = Append(results,
                FrameRecord(frame_count, ClassifyFrame(pt), pts, cur_size))
    /\ frame_count' = AdvanceFrameCount(frame_count)
    /\ packets' = [packets EXCEPT ![Len(packets)].nframes = @ + 1]
    /\ UNCHANGED <<pc, cur_size, failed, ret, rvars, cvars>>

\* line 21: packet.decode() has no further frame; back to the demux loop
EndPacket ==
    /\ pc = "decode"
    /\ pc' = "demux"
    /\ UNCHANGED <<avars, rvars, cvars>>

\* lines 38-39: the demux loop is exhausted; container.close(); return results
CloseAndReturn ==
    /\ pc = "demux"
    /\ ret' = results
    /\ pc' = "returned"
    /\ UNCHANGED <<packets, decoded, cur_size, results, frame_count, failed, rvars, cvars>>

\* lines 40-42: av.open, demux, decode or close raises; the outer handler
\* prints and returns []
ContainerError ==
    /\ pc \in {"open", "demux", "decode"}
    /\ failed' = TRUE
    /\ ret' = OnException(results)
    /\ pc' = "returned"
    /\ UNCHANGED <<packets, decoded, cur_size, results, frame_count, rvars, cvars>>

InitAnalyze ==
    /\ pc = "open"
    /\ packets = << >>
    /\ decoded = << >>
    /\ cur_size = 0
    /\ results = << >>
    /\ frame_count = 0
    /\ failed = FALSE
    /\ ret = << >>
    /\ ReportIdle
    /\ ComposeIdle

NextAnalyze ==
    \/ Open
    \/ NextPacket
    \/ DecodeFrame
    \/ EndPacket
    \/ CloseAndReturn
    \/ ContainerError

SpecAnalyze == InitAnalyze /\ [][NextAnalyze]_vars

---------------------------------------------------------------------------
(* Properties of analyze_video *)

RECURSIVE SumFrames(_)
SumFrames(ps) ==
    IF ps = << >> THEN 0 ELSE ps[1].nframes + SumFrames(Tail(ps))

\* C1: a run that completes without a container-level failure returns one
\* record per decoded frame, and the k-th record (from 0) has index k,
\* whatever the number of frames each packet decoded to.
C1_IndicesContiguous ==
    (pc = "returned" /\ ~failed) =>
        /\ Len(ret) = SumFrames(packets)
        /\ Len(ret) = Len(decoded)
        /\ \A k \in 1..Len(ret) : ret[k].index = k - 1

\* a completed run with a packet of no frame and a packet of several frames
C1_Witness ==
    /\ pc = "returned" /\ ~failed
    /\ \E i \in 1..Len(packets) : packets[i].nframes = 0
    /\ \E i \in 1..Len(packets) : packets[i].nframes >= 2
    /\ Len(ret) >= 2

FourEnumerants == {"I", "P", "B", "Unknown"}

\* C2: every record analyze_video returns has a type among I, P, B and
\* Unknown; a picture type outside I/P/B and a failed extraction give Unknown.
C2_TypeInFourEnumerants ==
    pc = "returned" =>
        \A k \in 1..Len(ret) :
            /\ ret[k].type \in FourEnumerants
            /\ decoded[k].pict_type \notin {1, 2, 3} => ret[k].type = "Unknown"

\* what does hold of the classification: I, P, B are named, and a failed
\* extraction (ValueError, AttributeError) gives Unknown without ending
\* the run; the other members of PictureType keep their own name.
C2_ClassificationAsCoded ==
    \A k \in 1..Len(results) :
        LET pt == decoded[k].pict_type IN
        /\ pt = 1 => results[k].type = "I"
        /\ pt = 2 => results[k].type = "P"
        /\ pt = 3 => results[k].type = "B"
        /\ pt \in {8, Missing} => results[k].type = "Unknown"
        /\ pt \in {0, 4, 5, 6, 7} => results[k].type \notin FourEnumerants

\* C3: analyze_video returns the empty list after any container-level
\* failure, and otherwise the records of all decoded frames: never a
\* proper non-empty prefix, never the records accumulated before a failure.
C3_AllOrNothing ==
    pc = "returned" =>
        /\ failed => ret = << >>
        /\ ~failed => (ret = results /\ Len(ret) = Len(decoded))

\* a failure after some frames were already recorded
C3_Witness ==
    /\ pc = "returned" /\ failed
    /\ Len(results) >= 2
    /\ ret = << >>

---------------------------------------------------------------------------
(* Text: what str(), repr() and the CSV reader do with numbers and lines *)

Digit(d) == SubSeq("0123456789", d + 1, d + 1)
IsDigit(c) == \E d \in 0..9 : Digit(d) = c
DigitVal(c) == CHOOSE d \in 0..9 : Digit(d) = c
CharAt(s, i) == SubSeq(s, i, i)

RECURSIVE NatToStr(_)
NatToStr(n) == IF n < 10 THEN Digit(n) ELSE NatToStr(n \div 10) \o Digit(n % 10)

\* str(n) of a Python int
IntToStr(n) == IF n < 0 THEN "-" \o NatToStr(-n) ELSE NatToStr(n)

RECURSIVE StrToNat(_)
StrToNat(s) ==
    IF Len(s) = 0 THEN 0
    ELSE StrToNat(SubSeq(s, 1, Len(s) - 1)) * 10 + DigitVal(CharAt(s, Len(s)))

AllDigits(s) == Len(s) > 0 /\ \A i \in 1..Len(s) : IsDigit(CharAt(s, i))

\* position of the first c in s, 0 if there is none
FirstIdx(s, c) ==
    IF \E i \in 1..Len(s) : CharAt(s, i) = c
    THEN CHOOSE i \in 1..Len(s) :
            CharAt(s, i) = c /\ \A j \in 1..(i - 1) : CharAt(s, j) # c
    ELSE 0

RECURSIVE Split(_, _)
Split(s, c) ==
    LET i == FirstIdx(s, c) IN
    IF i = 0 THEN <<s>>
    ELSE <<SubSeq(s, 1, i - 1)>> \o Split(SubSeq(s, i + 1, Len(s)), c)

RECURSIVE Join(_, _)
Join(parts, sep) ==
    IF parts = << >> THEN ""
    ELSE IF Len(parts) = 1 THEN parts[1]
    ELSE parts[1] \o sep \o Join(Tail(parts), sep)

\* num/den rounded to the nearest integer, ties to even (numpy.rint, and
\* Python's float formatting), for num >= 0 and den > 0
RoundHalfEven(num, den) ==
    LET q == num \div den
        r == num % den
    IN  IF 2 * r < den THEN q
        ELSE IF 2 * r > den THEN q + 1
        ELSE IF q % 2 = 0 THEN q ELSE q + 1

---------------------------------------------------------------------------
(* pandas: DataFrame cells.  A float64 cell holds its value in hundredths   *)
(* (every float of this program has at most two decimals: a timestamp     *)
(* column that holds a null, and size_kb).                                *)

IntCell(n) == [k |-> "int", n |-> n, s |-> ""]
FloatCell(h) == [k |-> "float", n |-> h, s |-> ""]
StrCell(t) == [k |-> "str", n |-> 0, s |-> t]

HasColumn(d, name) == \E c \in 1..Len(d.columns) : d.columns[c] = name
ColIdx(d, name) == CHOOSE c \in 1..Len(d.columns) : d.columns[c] = name
Column(d, name) == [r \in 1..Len(d.data) |-> d.data[r][ColIdx(d, name)]]

\* line 79: pd.DataFrame(frame_data).  The columns are the records' keys in
\* insertion order; a column of ints that holds a None becomes float64 with
\* NaN, a column of None only stays a column of nulls.
BuildDataFrame(fd) ==
    IF fd = << >> THEN EmptyFrame
    ELSE LET anyNull == \E r \in 1..Len(fd) : fd[r].pts = NULL
             PtsCell(v) == IF v = NULL THEN NaNCell
                           ELSE IF anyNull THEN FloatCell(100 * v)
                           ELSE IntCell(v)
         IN  [columns |-> <<"index", "type", "pts", "size">>,
              data |-> [r \in 1..Len(fd) |->
                          <<IntCell(fd[r].index), StrCell(fd[r].type),
                            PtsCell(fd[r].pts), IntCell(fd[r].size)>>]]

\* line 80: (df['size'] / 1024).round(2), in hundredths.  size/1024 and its
\* product with 100 are exact in float64, so the rounding is rint's.
SizeKb(size) == RoundHalfEven(100 * size, 1024)

\* line 80: df['size_kb'] = ...   (the caller has checked HasColumn)
AssignSizeKb(d) ==
    [columns |-> Append(d.columns, "size_kb"),
     data |-> [r \in 1..Len(d.data) |->
                 Append(d.data[r], FloatCell(SizeKb(Column(d, "size")[r].n)))]]

\* repr of a float64 of at most two decimals, as to_csv writes it
FloatToStr(h) ==
    LET a == IF h < 0 THEN -h ELSE h
        ip == a \div 100
        fr == a % 100
        frac == IF fr % 10 = 0 THEN Digit(fr \div 10)
                ELSE Digit(fr \div 10) \o Digit(fr % 10)
    IN  (IF h < 0 THEN "-" ELSE "") \o NatToStr(ip) \o "." \o frac

\* line 84: one field of to_csv (na_rep is the empty text)
CellToStr(c) ==
    IF c.k = "int" THEN IntToStr(c.n)
    ELSE IF c.k = "float" THEN FloatToStr(c.n)
    ELSE IF c.k = "str" THEN c.s
    ELSE ""

\* line 84: df.to_csv(full_path, index=False): a header line, then one line
\* per row
ToCsv(d) ==
    <<Join(d.columns, ",")>> \o
    [r \in 1..Len(d.data) |->
        Join([c \in 1..Len(d.data[r]) |-> CellToStr(d.data[r][c])], ",")]

\* how read_csv reads one field before the column's dtype is settled
IsIntText(t) ==
    \/ AllDigits(t)
    \/ Len(t) > 1 /\ CharAt(t, 1) = "-" /\ AllDigits(SubSeq(t, 2, Len(t)))

IsFloatText(t) ==
    LET u == IF Len(t) > 0 /\ CharAt(t, 1) = "-" THEN SubSeq(t, 2, Len(t)) ELSE t
        dot == FirstIdx(u, ".")
    IN  /\ dot > 1
        /\ AllDigits(SubSeq(u, 1, dot - 1))
        /\ Len(u) - dot \in {1, 2}
        /\ AllDigits(SubSeq(u, dot + 1, Len(u)))

TextToInt(t) ==
    IF CharAt(t, 1) = "-" THEN -StrToNat(SubSeq(t, 2, Len(t))) ELSE StrToNat(t)

\* the value of a numeric field in hundredths
TextToHundredths(t) ==
    IF IsIntText(t) THEN 100 * TextToInt(t)
    ELSE LET neg == CharAt(t, 1) = "-"
             u == IF neg THEN SubSeq(t, 2, Len(t)) ELSE t
             dot == FirstIdx(u, ".")
             fr == SubSeq(u, dot + 1, Len(u))
             h == 100 * StrToNat(SubSeq(u, 1, dot - 1))
                  + (IF Len(fr) = 1 THEN 10 * StrToNat(fr) ELSE StrToNat(fr))
         IN  IF neg THEN -h ELSE h

\* line 95: pd.read_csv(csv_path).  The first line names the columns; a
\* column of integer fields is int64, a column of numeric and empty fields is
\* float64 with NaN for the empty ones, any other column holds text.
ReadCsv(lines) ==
    LET cols == Split(lines[1], ",")
        raw == [r \in 1..(Len(lines) - 1) |-> Split(lines[r + 1], ",")]
        ColTexts(c) == {raw[r][c] : r \in 1..Len(raw)}
        AllInt(c) == \A t \in ColTexts(c) : IsIntText(t)
        AllNum(c) == \A t \in ColTexts(c) : t = "" \/ IsIntText(t) \/ IsFloatText(t)
        Cell(t, c) ==
            IF AllInt(c) THEN IntCell(TextToInt(t))
            ELSE IF AllNum(c)
                 THEN (IF t = "" THEN NaNCell ELSE FloatCell(TextToHundredths(t)))
            ELSE (IF t = "" THEN NaNCell ELSE StrCell(t))
    IN  [columns |-> cols,
         data |-> [r \in 1..Len(raw) |->
                     [c \in 1..Len(cols) |-> Cell(raw[r][c], c)]]]

---------------------------------------------------------------------------
(* save_frame_report and split_video_pro *)

Timebase == 90000

\* line 96: df[df['type'] == 'I'], as the positions of the kept rows
RECURSIVE IframeRows(_, _)
IframeRows(d, r) ==
    IF r > Len(d.data) THEN << >>
    ELSE (IF Column(d, "type")[r] = StrCell("I") THEN <<r>> ELSE << >>)
         \o IframeRows(d, r + 1)

\* (mutation of IsSplitPts: the first keyframe, at time zero, is kept)
IsSplitPts_ZeroKept(c) == c.k \in {"int", "float"} /\ c.n >= 0

\* line 99: `if pts > 0` (false of NaN)
IsSplitPts(c) == c.k \in {"int", "float"} /\ c.n > 0

\* line 99: f"{pts/90000:.4f}".  The value in units of 1/10000 s is
\* pts / (Timebase / 10000) rounded; a float cell holds hundredths.
FormatSeconds(c) ==
    LET unit == Timebase \div 10000
        v == IF c.k = "float" THEN RoundHalfEven(c.n, 100 * unit)
             ELSE RoundHalfEven(c.n, unit)
        fr == v % 10000
    IN  NatToStr(v \div 10000) \o "." \o Digit(fr \div 1000)
        \o Digit((fr \div 100) % 10) \o Digit((fr \div 10) % 10) \o Digit(fr % 10)

\* lines 96-99: the list `split_points`
SplitPoints(d) ==
    LET rows == IframeRows(d, 1)
        pts == Column(d, "pts")
        RECURSIVE Build(_)
        Build(i) ==
            IF i > Len(rows) THEN << >>
            ELSE (IF IsSplitPts(pts[rows[i]])
                  THEN <<FormatSeconds(pts[rows[i]])>> ELSE << >>)
                 \o Build(i + 1)
    IN  Build(1)

\* lines 79-87: save_frame_report(frame_data, destination_folder).
\* df['size'] of a DataFrame without that column raises KeyError, outside
\* the try; a failure of to_csv is printed and swallowed.
SaveFrameReport ==
    /\ pc = "save"
    /\ LET d0 == BuildDataFrame(frame_data) IN
       IF ~HasColumn(d0, "size")
       THEN /\ raised' = "KeyError"
            /\ pc' = "crashed"
            /\ UNCHANGED <<csv_exists, csv, console>>
       ELSE \E io_ok \in BOOLEAN :
            IF io_ok
            THEN /\ csv' = ToCsv(AssignSizeKb(d0))
                 /\ csv_exists' = TRUE
                 /\ console' = Append(console, "SUCCESS: Report saved")
                 /\ pc' = "split"
                 /\ UNCHANGED raised
            ELSE /\ console' = Append(console, "Failed to save file")
                 /\ pc' = "split"
                 /\ UNCHANGED <<csv_exists, csv, raised>>
    /\ UNCHANGED <<avars, cvars, frame_data, df, split_points, times_string, returncode>>

\* lines 95-112: split_video_pro up to the command it builds
SplitPlan ==
    /\ pc = "split"
    /\ IF ~csv_exists
       THEN /\ raised' = "FileNotFoundError"
            /\ pc' = "crashed"
            /\ UNCHANGED <<df, split_points, times_string>>
       ELSE /\ df' = ReadCsv(csv)
            /\ split_points' = SplitPoints(df')
            /\ times_string' = Join(split_points', ",")
            /\ pc' = "split_run"
            /\ UNCHANGED raised
    /\ UNCHANGED <<avars, cvars, frame_data, csv_exists, csv, returncode, console>>

\* lines 115-116: subprocess.run(cmd) without check= and without capture;
\* then print(f"Split complete. ...")
AfterSplit(rc) == [printed |-> <<"Split complete">>, raised |-> ""]

\* lines 114-116: the external split invocation and what follows it
SplitRun ==
    /\ pc = "split_run"
    /\ \E rc \in {0, 1} :
         /\ returncode' = rc
         /\ console' = console \o <<"Running split at I-frames...">>
                               \o AfterSplit(rc).printed
         /\ raised' = AfterSplit(rc).raised
    /\ pc' = "split_done"
    /\ UNCHANGED <<avars, cvars, frame_data, csv_exists, csv, df, split_points, times_string>>

ReportTypes == {"I", "P", "Unknown"}
ReportPts == {NULL, 0, 90000, 123456}
ReportSizes == {128, 1500}

\* the reports of at most MaxRows rows, indexed as analyze_video indexes them
EnumeratedReports ==
    UNION {
        { [r \in 1..n |-> FrameRecord(r - 1, f[r].type, f[r].pts, f[r].size)] :
            f \in [1..n -> [type : ReportTypes, pts : ReportPts, size : ReportSizes]] } :
        n \in 0..MaxRows }

\* 270 frames at 90 frames per keyframe and 1000 timebase units per frame:
\* keyframes at timestamps 0, 90000 and 180000
ScenarioReport ==
    [r \in 1..270 |->
        FrameRecord(r - 1, IF (r - 1) % 90 = 0 THEN "I" ELSE "P",
                    1000 * (r - 1), IF (r - 1) % 90 = 0 THEN 2048 ELSE 300)]

InitReport ==
    /\ pc = "save"
    /\ AnalyzeIdle
    /\ frame_data \in EnumeratedReports \cup {ScenarioReport}
    /\ csv_exists = FALSE /\ csv = << >>
    /\ df = EmptyFrame
    /\ split_points = << >> /\ times_string = "" /\ returncode = 0
    /\ console = << >> /\ raised = ""
    /\ ComposeIdle

NextReport ==
    \/ SaveFrameReport
    \/ SplitPlan
    \/ SplitRun

SpecReport == InitReport /\ [][NextReport]_vars

---------------------------------------------------------------------------
(* Properties of save_frame_report and split_video_pro *)

Printed(msg) == \E i \in 1..Len(console) : console[i] = msg

\* a cell read back holds the integer v (as int64, or as the float64 v.0)
NumEq(c, v) == (c.k = "int" /\ c.n = v) \/ (c.k = "float" /\ c.n = 100 * v)

\* row r of a DataFrame read back holds the record rec
SameRecord(d, r, rec) ==
    /\ NumEq(Column(d, "index")[r], rec.index)
    /\ Column(d, "type")[r] = StrCell(rec.type)
    /\ IF rec.pts = NULL THEN Column(d, "pts")[r].k = "nan"
       ELSE NumEq(Column(d, "pts")[r], rec.pts)
    /\ NumEq(Column(d, "size")[r], rec.size)

\* h hundredths is size/1024 rounded to two decimals
IsSizeKbOf(c, size) ==
    /\ c.k = "float"
    /\ 2 * (100 * size - 1024 * c.n) <= 1024
    /\ 2 * (1024 * c.n - 100 * size) <= 1024

\* the file holds the report fd: the five columns in order (the timestamp
\* column under its name in the file, pts), and row by row the same records
FileHolds(lines, fd) ==
    LET d == ReadCsv(lines) IN
    /\ d.columns = <<"index", "type", "pts", "size", "size_kb">>
    /\ Len(d.data) = Len(fd)
    /\ \A r \in 1..Len(fd) :
         /\ SameRecord(d, r, fd[r])
         /\ IsSizeKbOf(Column(d, "size_kb")[r], fd[r].size)

\* C4: whenever save_frame_report has run on a report and the write itself
\* did not fail, the file exists and reading it back yields the same ordered
\* records (index, type, timestamp, size), nulls included, with size_kb =
\* size/1024 rounded to two decimals.
C4_RoundTrip ==
    (pc # "save" /\ ~Printed("Failed to save file")) =>
        /\ csv_exists
        /\ FileHolds(csv, frame_data)

\* what does hold: the round trip of every report that has a row
C4_RoundTripNonEmpty ==
    (pc # "save" /\ ~Printed("Failed to save file") /\ frame_data # << >>) =>
        /\ csv_exists
        /\ FileHolds(csv, frame_data)

\* the timestamps, in report order, of the Intra records with a strictly
\* positive timestamp
RECURSIVE KeyframeTimes(_)
KeyframeTimes(fd) ==
    IF fd = << >> THEN << >>
    ELSE (IF fd[1].type = "I" /\ fd[1].pts # NULL /\ fd[1].pts > 0
          THEN <<fd[1].pts>> ELSE << >>)
         \o KeyframeTimes(Tail(fd))

\* text t is a decimal with exactly four decimals, nearest to pts/90000
IsSecondsOf(t, pts) ==
    LET dot == FirstIdx(t, ".")
        v == 10000 * StrToNat(SubSeq(t, 1, dot - 1))
             + StrToNat(SubSeq(t, dot + 1, Len(t)))
    IN  /\ dot > 1
        /\ Len(t) - dot = 4
        /\ AllDigits(SubSeq(t, 1, dot - 1))
        /\ AllDigits(SubSeq(t, dot + 1, Len(t)))
        /\ 2 * (9 * v - pts) <= 9
        /\ 2 * (pts - 9 * v) <= 9

\* C5: the split points are, in report order, one entry per Intra record
\* with strictly positive timestamp and nothing else, each timestamp/90000
\* with four decimals; keyframes at 0, 90000, 180000 give 1.0000 and 2.0000.
C5_SplitPoints ==
    pc \in {"split_run", "split_done"} =>
        LET times == KeyframeTimes(frame_data) IN
        /\ Len(split_points) = Len(times)
        /\ \A i \in 1..Len(times) : IsSecondsOf(split_points[i], times[i])
        /\ times_string = Join(split_points, ",")
        /\ frame_data = ScenarioReport =>
             /\ split_points = <<"1.0000", "2.0000">>
             /\ times_string = "1.0000,2.0000"

\* the scenario: a first keyframe at time zero that is no split point
C5_Witness ==
    /\ pc = "split_run"
    /\ Len(frame_data) = 270
    /\ frame_data[1].type = "I" /\ frame_data[1].pts = 0
    /\ split_points = <<"1.0000", "2.0000">>

\* an Intra record without timestamp next to one with a timestamp
C5_WitnessNull ==
    /\ pc = "split_run"
    /\ Len(frame_data) = 2
    /\ frame_data[1].type = "I" /\ frame_data[1].pts = NULL
    /\ frame_data[2].type = "I" /\ frame_data[2].pts = 123456
    /\ split_points = <<"1.3717">>

\* C6: after an external split invocation that exits non-zero, the failure
\* reaches the caller and no completion is reported.
C6_SplitFailureSurfaced ==
    (pc = "split_done" /\ returncode # 0) =>
        /\ raised # ""
        /\ ~Printed("Split complete")

---------------------------------------------------------------------------
(* create_grayscale_ghost_video and create_temporal_ghost_video *)

TargetFrames == 90

\* pd.read_csv(csv_path) of the report file, reduced to the two columns the
\* composition strategies read
ComposeDf(r) ==
    [columns |-> <<"index", "type">>,
     data |-> [x \in 1..r.rows |->
                 <<IntCell(x - 1), StrCell(IF (x - 1) \in r.intra THEN "I" ELSE "P")>>]]

\* arithmetic of pandas/numpy scalars: NaN absorbs
CellSub(a, b) == IF a.k = "nan" \/ b.k = "nan" THEN NaNCell ELSE IntCell(a.n - b.n)

\* an f-string's text of such a scalar
ScalarToStr(c) == IF c.k = "nan" THEN "nan" ELSE IntToStr(c.n)

\* (mutation of LastIframeIdx: the first Intra row instead of the last)
LastIframeIdx_First(d) ==
    LET idx == Column(d, "index")
        typ == Column(d, "type")
        S == {idx[r].n : r \in {r \in 1..Len(d.data) : typ[r] = StrCell("I")}}
    IN  IF S = {} THEN NaNCell
        ELSE IntCell(CHOOSE m \in S : \A x \in S : x >= m)

\* lines 126, 183: df[df['type'] == 'I']['index'].max(); NaN of no row
LastIframeIdx(d) ==
    LET idx == Column(d, "index")
        typ == Column(d, "type")
        S == {idx[r].n : r \in {r \in 1..Len(d.data) : typ[r] = StrCell("I")}}
    IN  IF S = {} THEN NaNCell
        ELSE IntCell(CHOOSE m \in S : \A x \in S : x <= m)

\* lines 128, 186: frames_in_last = total_frames - last_iframe_idx
FramesInLast(total, last) == CellSub(IntCell(total), last)

\* lines 129, 187: padding_needed = 90 - frames_in_last
PaddingNeeded(in_last) == CellSub(IntCell(TargetFrames), in_last)

\* f"{i:03d}"
Pad3(n) == IF n < 10 THEN "00" \o NatToStr(n)
           ELSE IF n < 100 THEN "0" \o NatToStr(n) ELSE NatToStr(n)

SegmentFile(n) == "segment_" \o Pad3(n) \o ".mp4"
InputLabel(n) == "[" \o NatToStr(n) \o ":v]"
Label(prefix, n, suffix) == "[" \o prefix \o NatToStr(n) \o suffix \o "]"

\* one node of the filter graph: the labels it consumes, its filter, the
\* label it defines; Render is the text the f-string builds
Node(ins, filter, out) == [ins |-> ins, filter |-> filter, out |-> out]
Render(node) == Join(node.ins, "") \o node.filter \o node.out
RenderAll(parts) == Join([x \in 1..Len(parts) |-> Render(parts[x])], "; ")

PadFilter(padding) == "tpad=stop=" \o ScalarToStr(padding) \o ":stop_mode=clone"

\* lines 124-129 / 181-187: the report statistics
StatsStep(here, next) ==
    /\ pc = here
    /\ LET d == ComposeDf(rep) IN
       /\ total_frames' = Len(d.data)
       /\ last_iframe_idx' = LastIframeIdx(d)
       /\ frames_in_last' = FramesInLast(total_frames', last_iframe_idx')
       /\ padding_needed' = PaddingNeeded(frames_in_last')
    /\ input_args' = << >>
    /\ loop_i' = 0
    /\ pc' = next
    /\ UNCHANGED <<avars, rvars, rep, num_segments, filter_parts, last_label,
                   third_size, filter_complex, gray>>

\* lines 131-134 / 190-193: one iteration of the input loop
InputStep(here) ==
    /\ pc = here
    /\ loop_i < num_segments
    /\ input_args' = input_args \o <<"-i", SegmentFile(loop_i)>>
    /\ loop_i' = loop_i + 1
    /\ UNCHANGED <<pc, avars, rvars, rep, num_segments, total_frames,
                   last_iframe_idx, frames_in_last, padding_needed, filter_parts,
                   last_label, third_size, filter_complex, gray>>

GrayStats == StatsStep("g_stats", "g_inputs")
GrayInput == InputStep("g_inputs")

\* line 137: filter_parts = []; the convert loop starts
GrayBeginConvert ==
    /\ pc = "g_inputs"
    /\ loop_i >= num_segments
    /\ filter_parts' = << >>
    /\ loop_i' = 0
    /\ pc' = "g_convert"
    /\ UNCHANGED <<avars, rvars, rep, num_segments, total_frames, last_iframe_idx,
                   frames_in_last, padding_needed, input_args, last_label,
                   third_size, filter_complex, gray>>

\* lines 140-141: one iteration of `for i in range(num_segments - 1)`
GrayConvert ==
    /\ pc = "g_convert"
    /\ loop_i < num_segments - 1
    /\ filter_parts' = Append(filter_parts,
            Node(<<InputLabel(loop_i)>>, "hue=s=0", Label("v", loop_i, "_gray")))
    /\ loop_i' = loop_i + 1
    /\ UNCHANGED <<pc, avars, rvars, rep, num_segments, total_frames,
                   last_iframe_idx, frames_in_last, padding_needed, input_args,
                   last_label, third_size, filter_complex, gray>>

\* lines 144-147: the last segment is padded and converted; the blend loop
\* starts from [v0_gray]
GrayPadLast ==
    /\ pc = "g_convert"
    /\ loop_i >= num_segments - 1
    /\ filter_parts' = Append(filter_parts,
            Node(<<InputLabel(num_segments - 1)>>,
                 PadFilter(padding_needed) \o ",hue=s=0",
                 Label("v", num_segments - 1, "_gray")))
    /\ last_label' = "[v0_gray]"
    /\ loop_i' = 1
    /\ pc' = "g_blend"
    /\ UNCHANGED <<avars, rvars, rep, num_segments, total_frames, last_iframe_idx,
                   frames_in_last, padding_needed, input_args, third_size,
                   filter_complex, gray>>

\* lines 148-151 / 231-236: one iteration of `for i in range(1, num_segments)`
BlendStep(here, mid, own, mode) ==
    /\ pc = here
    /\ loop_i < num_segments
    /\ LET next_label == IF loop_i < num_segments - 1
                         THEN Label(mid, loop_i, "") ELSE "[outv]"
       IN  /\ filter_parts' = Append(filter_parts,
                  Node(<<last_label, Label("v", loop_i, own)>>,
                       "blend=all_mode=" \o mode, next_label))
           /\ last_label' = next_label
    /\ loop_i' = loop_i + 1
    /\ UNCHANGED <<pc, avars, rvars, rep, num_segments, total_frames,
                   last_iframe_idx, frames_in_last, padding_needed, input_args,
                   third_size, filter_complex, gray>>

GrayBlend == BlendStep("g_blend", "b", "_gray", "lighten")

\* lines 153-168 / 238-257: the command is built and run; its exit status
\* decides what is printed
RunStep(here, next, keep) ==
    /\ pc = here
    /\ loop_i >= num_segments
    /\ filter_complex' = RenderAll(filter_parts)
    /\ \E rc \in {0, 1} :
         /\ returncode' = rc
         /\ console' = Append(console, IF rc = 0 THEN "Success!" ELSE "FFmpeg Error")
    /\ gray' = IF keep
               THEN [padding |-> padding_needed, parts |-> filter_parts,
                     filter_complex |-> filter_complex']
               ELSE gray
    /\ pc' = next
    /\ UNCHANGED <<avars, frame_data, csv_exists, csv, df, split_points,
                   times_string, raised, rep, num_segments, total_frames,
                   last_iframe_idx, frames_in_last, padding_needed, loop_i,
                   input_args, filter_parts, last_label, third_size>>

GrayRun == RunStep("g_blend", "t_stats", TRUE)

TemporalStats == StatsStep("t_stats", "t_inputs")
TemporalInput == InputStep("t_inputs")

\* i < q and 2*q for the float q = num/den (den = 3: the comparisons of an
\* integer with N/3 and 2N/3 come out as those of the exact fractions)
LtRat(n, q) == n * q.den < q.num
Twice(q) == [num |-> 2 * q.num, den |-> q.den]

\* lines 196-202: the last segment is padded first; third_size
TemporalPadLast ==
    /\ pc = "t_inputs"
    /\ loop_i >= num_segments
    /\ filter_parts' = <<Node(<<InputLabel(num_segments - 1)>>,
                              PadFilter(padding_needed),
                              Label("v", num_segments - 1, "_padded"))>>
    /\ third_size' = [num |-> num_segments, den |-> 3]
    /\ loop_i' = 0
    /\ pc' = "t_color"
    /\ UNCHANGED <<avars, rvars, rep, num_segments, total_frames, last_iframe_idx,
                   frames_in_last, padding_needed, input_args, last_label,
                   filter_complex, gray>>

RedFilter == "colorchannelmixer=rr=1.0:rg=0:rb=0:gr=0:gg=0:gb=0:br=0:bg=0:bb=0"
GreenFilter == "colorchannelmixer=rr=0:rg=0:rb=0:gr=0:gg=1.0:gb=0:br=0:bg=0:bb=0"
BlueFilter == "colorchannelmixer=rr=0:rg=0:rb=0:gr=0:gg=0:gb=0:br=0:bg=0:bb=1.0"

\* (mutation of ColorFilter: the zones of the default 12 segments, as fixed
\* indices)
ColorFilter_Fixed(n, third) ==
    IF n < 4 THEN RedFilter
    ELSE IF n < 8 THEN GreenFilter
    ELSE BlueFilter

\* lines 210-221: the zone of segment i
ColorFilter(n, third) ==
    IF LtRat(n, third) THEN RedFilter
    ELSE IF LtRat(n, Twice(third)) THEN GreenFilter
    ELSE BlueFilter

\* lines 205-225: one iteration of the colour loop
TemporalColor ==
    /\ pc = "t_color"
    /\ loop_i < num_segments
    /\ LET input_label == IF loop_i = num_segments - 1
                          THEN Label("v", loop_i, "_padded")
                          ELSE InputLabel(loop_i)
       IN  filter_parts' = Append(filter_parts,
               Node(<<input_label>>, ColorFilter(loop_i, third_size),
                    Label("v", loop_i, "_processed")))
    /\ loop_i' = loop_i + 1
    /\ UNCHANGED <<pc, avars, rvars, rep, num_segments, total_frames,
                   last_iframe_idx, frames_in_last, padding_needed, input_args,
                   last_label, third_size, filter_complex, gray>>

\* line 229: last_label = "[v0_processed]"; the blend loop starts
TemporalBeginBlend ==
    /\ pc = "t_color"
    /\ loop_i >= num_segments
    /\ last_label' = "[v0_processed]"
    /\ loop_i' = 1
    /\ pc' = "t_blend"
    /\ UNCHANGED <<avars, rvars, rep, num_segments, total_frames, last_iframe_idx,
                   frames_in_last, padding_needed, input_args, filter_parts,
                   third_size, filter_complex, gray>>

TemporalBlend == BlendStep("t_blend", "blend", "_processed", "lighten")
TemporalRun == RunStep("t_blend", "done", FALSE)

\* report files: [rows, intra]
ComposeReports ==
    { [rows |-> 1100, intra |-> {0, 1010}],
      [rows |-> 1100, intra |-> {0, 1050}],
      [rows |-> 270, intra |-> {0, 90, 180}],
      [rows |-> 200, intra |-> {0}],
      [rows |-> 100, intra |-> {0, 90}],
      [rows |-> 5, intra |-> {}] }

InitCompose ==
    /\ pc = "g_stats"
    /\ AnalyzeIdle
    /\ ReportIdle
    /\ rep \in ComposeReports
    /\ num_segments \in 1..MaxSegments
    /\ total_frames = 0 /\ last_iframe_idx = NaNCell /\ frames_in_last = NaNCell
    /\ padding_needed = NaNCell /\ loop_i = 0 /\ input_args = << >>
    /\ filter_parts = << >> /\ last_label = "" /\ third_size = [num |-> 0, den |-> 1]
    /\ filter_complex = ""
    /\ gray = [padding |-> NaNCell, parts |-> << >>, filter_complex |-> ""]

NextCompose ==
    \/ GrayStats
    \/ GrayInput
    \/ GrayBeginConvert
    \/ GrayConvert
    \/ GrayPadLast
    \/ GrayBlend
    \/ GrayRun
    \/ TemporalStats
    \/ TemporalInput
    \/ TemporalPadLast
    \/ TemporalColor
    \/ TemporalBeginBlend
    \/ TemporalBlend
    \/ TemporalRun

SpecCompose == InitCompose /\ [][NextCompose]_vars

---------------------------------------------------------------------------
(* Properties of the composition strategies *)

HasIntra(r) == \E x \in r.intra : x < r.rows
LargestIntra(r) ==
    CHOOSE m \in r.intra : m < r.rows /\ \A x \in r.intra : x < r.rows => x <= m

\* the clone-pad nodes of a graph
PadNodes(parts) ==
    {x \in 1..Len(parts) : SubSeq(parts[x].filter, 1, 5) = "tpad="}

\* the graph has one clone-pad node, on the last input, that pads by the
\* amount written as text `amount`
PadsLastBy(parts, n, amount) ==
    /\ Cardinality(PadNodes(parts)) = 1
    /\ \A x \in PadNodes(parts) :
         /\ parts[x].ins = <<InputLabel(n - 1)>>
         /\ \/ parts[x].filter = "tpad=stop=" \o amount \o ":stop_mode=clone"
            \/ parts[x].filter = "tpad=stop=" \o amount \o ":stop_mode=clone,hue=s=0"

\* C7: for a report with an Intra row, both strategies hand the clone-pad
\* node 90 - (totalFrames - lastIntraIndex); 1100 rows with last Intra at
\* 1010 give 0, with last Intra at 1050 they give 50 frames and padding 40.
C7_PaddingFormula ==
    (pc = "done" /\ HasIntra(rep)) =>
        LET expected == 90 - (rep.rows - LargestIntra(rep)) IN
        /\ padding_needed = IntCell(expected)
        /\ gray.padding = padding_needed
        /\ PadsLastBy(gray.parts, num_segments, IntToStr(expected))
        /\ PadsLastBy(filter_parts, num_segments, IntToStr(expected))
        /\ (rep.rows = 1100 /\ LargestIntra(rep) = 1010) => padding_needed.n = 0
        /\ (rep.rows = 1100 /\ LargestIntra(rep) = 1050) =>
               (frames_in_last.n = 50 /\ padding_needed.n = 40)

\* both strategies have run on the report of 1100 rows, last Intra at 1050
C7_Witness ==
    /\ pc = "done"
    /\ rep.rows = 1100 /\ 1050 \in rep.intra
    /\ gray.padding = IntCell(40) /\ padding_needed = IntCell(40)
    /\ num_segments = 12

\* the node of the temporal graph that defines [v<n>_processed]
ColorNodes(parts, n) ==
    {x \in 1..Len(parts) : parts[x].out = Label("v", n, "_processed")}

ZoneRank(filter) ==
    IF filter = RedFilter THEN 1 ELSE IF filter = GreenFilter THEN 2
    ELSE IF filter = BlueFilter THEN 3 ELSE 0

\* C8: in the temporal graph segment i is red iff i < N/3, green iff
\* N/3 <= i < 2N/3, blue otherwise; the zones are contiguous in index
\* order; with N = 12 they are 0-3, 4-7 and 8-11.
C8_Zones ==
    pc \in {"t_blend", "done"} =>
        LET N == num_segments
            Zone(n) == ZoneRank(filter_parts[CHOOSE x \in ColorNodes(filter_parts, n) : TRUE].filter)
        IN  /\ \A n \in 0..(N - 1) :
                 /\ Cardinality(ColorNodes(filter_parts, n)) = 1
                 /\ Zone(n) = 1 <=> 3 * n < N
                 /\ Zone(n) = 2 <=> (N <= 3 * n /\ 3 * n < 2 * N)
                 /\ Zone(n) = 3 <=> 2 * N <= 3 * n
            /\ \A m, n \in 0..(N - 1) : m < n => Zone(m) <= Zone(n)
            /\ N = 12 => /\ \A n \in 0..3 : Zone(n) = 1
                         /\ \A n \in 4..7 : Zone(n) = 2
                         /\ \A n \in 8..11 : Zone(n) = 3

\* seven segments: thirds that are no whole numbers (0-2, 3-4, 5-6)
C8_Witness ==
    /\ pc = "done"
    /\ num_segments = 7
    /\ \E x \in ColorNodes(filter_parts, 2) : filter_parts[x].filter = RedFilter
    /\ \E x \in ColorNodes(filter_parts, 3) : filter_parts[x].filter = GreenFilter
    /\ \E x \in ColorNodes(filter_parts, 5) : filter_parts[x].filter = BlueFilter

\* C9: the clone count of either strategy is a non-negative integer, and
\* with it the last segment has 90 frames, whatever the report.
C9_PaddingReachesTarget ==
    pc = "done" =>
        /\ padding_needed.k = "int" /\ padding_needed.n >= 0
        /\ gray.padding.k = "int" /\ gray.padding.n >= 0
        /\ frames_in_last.k = "int"
        /\ frames_in_last.n + padding_needed.n = 90

\* what does hold: the clone count is 90 - framesInLastSegment whenever the
\* report has an Intra row, negative when the last segment is longer
C9_PaddingAsCoded ==
    pc = "done" =>
        IF HasIntra(rep)
        THEN /\ padding_needed.k = "int"
             /\ frames_in_last.n + padding_needed.n = 90
             /\ padding_needed.n < 0 <=> rep.rows - LargestIntra(rep) > 90
        ELSE padding_needed = NaNCell

\* ---- well-formedness of a filter graph over n inputs

InputLabels(n) == {InputLabel(x) : x \in 0..(n - 1)}
Uses(parts, l) ==
    Cardinality({<<x, y>> \in (1..Len(parts)) \X (1..2) :
                    y <= Len(parts[x].ins) /\ parts[x].ins[y] = l})
Defs(parts, l) == Cardinality({x \in 1..Len(parts) : parts[x].out = l})
BlendNodes(parts) ==
    {x \in 1..Len(parts) : SubSeq(parts[x].filter, 1, 6) = "blend="}

\* the input a label derives from, through the one-input nodes
RECURSIVE Origin(_, _, _, _)
Origin(parts, n, l, fuel) ==
    IF l \in InputLabels(n) \/ fuel = 0 THEN l
    ELSE IF \E x \in 1..Len(parts) : parts[x].out = l /\ Len(parts[x].ins) = 1
         THEN Origin(parts, n,
                     parts[CHOOSE x \in 1..Len(parts) : parts[x].out = l].ins[1],
                     fuel - 1)
         ELSE l

WellFormed(parts, n) ==
    \* every input is consumed exactly once, by a one-input node
    /\ \A l \in InputLabels(n) :
         /\ Uses(parts, l) = 1
         /\ \A x \in 1..Len(parts) :
              (\E y \in 1..Len(parts[x].ins) : parts[x].ins[y] = l)
                  => Len(parts[x].ins) = 1
    \* n - 1 blend nodes, the k-th taking segment k as its second stream
    /\ Cardinality(BlendNodes(parts)) = n - 1
    /\ \A x \in BlendNodes(parts) :
         LET k == Cardinality({y \in BlendNodes(parts) : y <= x}) IN
         /\ Len(parts[x].ins) = 2
         /\ Origin(parts, n, parts[x].ins[2], Len(parts)) = InputLabel(k)
    \* every label consumed is an input or defined once, earlier
    /\ \A x \in 1..Len(parts) : \A y \in 1..Len(parts[x].ins) :
         LET l == parts[x].ins[y] IN
         \/ l \in InputLabels(n)
         \/ /\ Defs(parts, l) = 1
            /\ \E z \in 1..(x - 1) : parts[z].out = l
    \* every label defined is consumed exactly once, but the output's
    /\ \A x \in 1..Len(parts) :
         /\ Defs(parts, parts[x].out) = 1
         /\ parts[x].out # "[outv]" => Uses(parts, parts[x].out) = 1
    \* the mapped output is defined
    /\ Defs(parts, "[outv]") = 1
    /\ Uses(parts, "[outv]") = 0

\* C10: for every num_segments >= 1 each strategy's graph is a well-formed
\* chain that defines the mapped output [outv].
C10_GraphWellFormed ==
    pc = "done" =>
        /\ WellFormed(gray.parts, num_segments)
        /\ WellFormed(filter_parts, num_segments)

\* what does hold: the graphs are well formed from two segments on; with
\* one segment neither graph has a blend node and [outv] is never defined
C10_GraphAsCoded ==
    pc = "done" =>
        IF num_segments >= 2
        THEN /\ WellFormed(gray.parts, num_segments)
             /\ WellFormed(filter_parts, num_segments)
        ELSE /\ Defs(gray.parts, "[outv]") = 0
             /\ Defs(filter_parts, "[outv]") = 0

=============================================================================
